---- MODULE Spec2Model ----
(***************************************************************************)
(* Model of the indoor tracking prototype: the Express reading store       *)
(* (src/src/db.js, src/src/routes/routes.js) and the pure localisation     *)
(* helpers of the browser client (src/src/server.js).                      *)
(***************************************************************************)
EXTENDS Integers, Sequences, FiniteSets, TLC

VARIABLES
    deviceReadings,   \* db.js: the module-level array of stored readings
    last,             \* the request handled last: method, body, status, store before it
    inflight,         \* requests whose body is parsed and whose handler has not run yet
    handled,          \* the requests whose handler has run (concurrent specification)
    readings,         \* argument of getLatestReadings
    latestResult,     \* its result, once it has been called
    argAccessPoints,  \* arguments of computeDevicePosition
    argSignals,
    argRooms,
    position,         \* its result, once it has been called
    catalog,          \* db.js: the arrays levels, accessPoints and rooms
    solveArgs,        \* arguments of trilaterate
    solved,           \* its result, once it has been called
    locateArgs,       \* arguments of getRoomForPosition
    roomName,         \* its result, once it has been called
    filterArgs,       \* readings and level id given to the level filters
    filtered,         \* their results, once they have been called
    rssiArgs,         \* two rssi samples
    distances,        \* their distances, once rssiToDistance has been called
    refresh,          \* a client refresh: its two GET requests and what it renders
    currentLevelId,   \* server.js:35  let currentLevelId
    window,           \* window.currentLevelId, .accessPoints, .rooms, .levels
    initAppRooms,     \* the const rooms of initApp, which its listeners close over
    tasks,            \* the async handlers that wait for a response
    plotted,          \* the arguments of the last call that plots or locates devices
    requested,        \* the levelId of the switchLevel call started last
    started,          \* how many handlers have been started
    deviceVisibility, \* server.js:33: the devices listed, and those switched off
    plotArgs,         \* arguments of updateDevicePlot, and deviceVisibility
    markers           \* what it drew, once it has been called

vars ==
    <<deviceReadings, last, inflight, handled, readings, latestResult,
      argAccessPoints, argSignals, argRooms, position, catalog,
      solveArgs, solved, locateArgs, roomName, filterArgs, filtered,
      rssiArgs, distances, refresh, currentLevelId, window, initAppRooms,
      tasks, plotted, requested, started, deviceVisibility, plotArgs, markers>>

latestVars == <<readings, latestResult>>

resolveVars == <<argAccessPoints, argSignals, argRooms, position>>

solveVars == <<solveArgs, solved>>

locateVars == <<locateArgs, roomName>>

filterVars == <<filterArgs, filtered>>

distanceVars == <<rssiArgs, distances>>

\* The client functions other than getLatestReadings and computeDevicePosition.
helperVars == <<solveVars, locateVars, filterVars, distanceVars>>

clientVars ==
    <<currentLevelId, window, initAppRooms, tasks, plotted, requested, started,
      deviceVisibility>>

plotVars == <<plotArgs, markers>>

uiVars == <<clientVars, plotVars>>

----------------------------------------------------------------------------
(* Bounds of the model *)

MaxStore == 2
MaxRequests == 3
MaxReadings == 3
MaxSignals == 4

----------------------------------------------------------------------------
(* JavaScript values.  A property that is missing from a JSON body reads   *)
(* as undefined; strings are strings; the signals array is a sequence and  *)
(* its absence is carried by the flag hasSignals.                          *)

Undefined == "<undefined>"

\* !v for the string-or-undefined fields: undefined and "" are falsy.
Truthy(v) == v # Undefined /\ v # ""

NoSignals == <<>>

Signal(apId, rssi) == [apId |-> apId, rssi |-> rssi]

----------------------------------------------------------------------------
(* Request bodies of POST/PUT /device-readings *)

BodyIds == {Undefined, "", "DEV001", "DEV002"}
BodyNames == {"John"}
BodyDates == {Undefined, "2024-01-01T00:00:00.000Z"}
BodyLevelIds == {Undefined, "", "L001", "L002"}
\* The handlers test signals for truthiness and never look inside it: the
\* empty array stands for every array.
BodySignals == {NoSignals}

Bodies ==
    [id : BodyIds, name : BodyNames, hasSignals : BOOLEAN,
     signals : BodySignals, date : BodyDates, levelId : BodyLevelIds]

\* A body whose signals property is missing carries no array.
WellFormed(body) == (~body.hasSignals) => body.signals = NoSignals

Requests == {b \in Bodies : WellFormed(b)}

----------------------------------------------------------------------------
(* routes.js: the two write handlers, as functions of the store *)

\* A validation that forgets levelId.
InvalidNoLevelId(body) ==
    \/ ~Truthy(body.id)
    \/ ~body.hasSignals
    \/ ~Truthy(body.date)

\* A validation that tests presence (=== undefined) instead of truthiness.
InvalidPresenceOnly(body) ==
    \/ body.id = Undefined
    \/ ~body.hasSignals
    \/ body.date = Undefined
    \/ body.levelId = Undefined

\* routes.js:22 and :32  if (!id || !signals || !date || !levelId)
\* (an array, even an empty one, is truthy)
Invalid(body) ==
    \/ ~Truthy(body.id)
    \/ ~body.hasSignals
    \/ ~Truthy(body.date)
    \/ ~Truthy(body.levelId)

\* routes.js:25 and :37/:40  { id, name, signals, date, levelId }
NewReading(body) ==
    [id |-> body.id, name |-> body.name, signals |-> body.signals,
     date |-> body.date, levelId |-> body.levelId]

\* Array.prototype.findIndex(d => d.id === id): first index, or 0 for JS -1
FindIndex(store, id) ==
    IF \E i \in 1..Len(store) : store[i].id = id
    THEN CHOOSE i \in 1..Len(store) :
            /\ store[i].id = id
            /\ \A j \in 1..(i - 1) : store[j].id # id
    ELSE 0

\* A POST that upserts instead of appending.
PostStoreUpsert(store, body) ==
    IF Invalid(body) THEN store
    ELSE IF FindIndex(store, body.id) = 0
         THEN Append(store, NewReading(body))
         ELSE [store EXCEPT ![FindIndex(store, body.id)] = NewReading(body)]

\* router.post('/device-readings'): the store after the handler
PostStore(store, body) ==
    IF Invalid(body) THEN store ELSE Append(store, NewReading(body))

PostStatus(store, body) == IF Invalid(body) THEN 400 ELSE 201

\* A PUT that overwrites every record carrying the id.
PutStoreEvery(store, body) ==
    IF Invalid(body) THEN store
    ELSE IF FindIndex(store, body.id) = 0
         THEN Append(store, NewReading(body))
         ELSE [i \in 1..Len(store) |->
                  IF store[i].id = body.id THEN NewReading(body) ELSE store[i]]

\* A PUT that drops every record of the id and appends the new one.
PutStoreDedupe(store, body) ==
    IF Invalid(body) THEN store
    ELSE Append(SelectSeq(store, LAMBDA d : d.id # body.id), NewReading(body))

\* router.put('/device-readings'): the store after the handler
PutStore(store, body) ==
    IF Invalid(body) THEN store
    ELSE IF FindIndex(store, body.id) = 0
         THEN Append(store, NewReading(body))
         ELSE [store EXCEPT ![FindIndex(store, body.id)] = NewReading(body)]

\* A PUT that answers 200 whenever the reading is valid.
PutStatusAlways200(store, body) == IF Invalid(body) THEN 400 ELSE 200

PutStatus(store, body) ==
    IF Invalid(body) THEN 400
    ELSE IF FindIndex(store, body.id) = 0 THEN 201 ELSE 200

\* What the write handlers send back: res.status(400).send(text),
\* res.sendStatus(201) or res.status(200).json({ message })
PostPayload(store, body) ==
    IF Invalid(body) THEN <<"Invalid device reading data">> ELSE <<"Created">>

PutPayload(store, body) ==
    IF Invalid(body) THEN <<"Invalid device reading data">>
    ELSE IF FindIndex(store, body.id) = 0 THEN <<"Created">>
         ELSE <<"Device reading updated">>

----------------------------------------------------------------------------
(* db.js: the catalogs.  Lengths are kept on a grid of 5 source units (every *)
(* coordinate of db.js is a multiple of 50), so that the products of        *)
(* trilaterate stay within 32 bits.                                        *)

ToGrid(v) == v \div 5

Level(id, name, floorNumber) ==
    [id |-> id, name |-> name, floorNumber |-> floorNumber]

AccessPoint(id, x, y, levelId) ==
    [id |-> id, x |-> ToGrid(x), y |-> ToGrid(y), levelId |-> levelId]

Room(id, name, x, y, width, height, levelId) ==
    [id |-> id, name |-> name, x |-> ToGrid(x), y |-> ToGrid(y),
     width |-> ToGrid(width), height |-> ToGrid(height), levelId |-> levelId]

levels == <<
    Level("L001", "Ground Floor", 0),
    Level("L002", "First Floor", 1),
    Level("L003", "Second Floor", 2) >>

accessPoints == <<
    AccessPoint("AP000001", 100, 100, "L001"),
    AccessPoint("AP000002", 100, 500, "L001"),
    AccessPoint("AP000003", 600, 100, "L001"),
    AccessPoint("AP000004", 600, 500, "L001"),
    AccessPoint("AP000005", 1600, 300, "L001"),
    AccessPoint("AP000006", 100, 100, "L002"),
    AccessPoint("AP000007", 100, 500, "L002"),
    AccessPoint("AP000008", 850, 100, "L002"),
    AccessPoint("AP000009", 850, 500, "L002"),
    AccessPoint("AP000010", 1600, 100, "L002"),
    AccessPoint("AP000011", 1600, 500, "L002"),
    AccessPoint("AP000012", 100, 100, "L003"),
    AccessPoint("AP000013", 100, 500, "L003"),
    AccessPoint("AP000014", 1000, 300, "L003"),
    AccessPoint("AP000015", 1400, 300, "L003") >>

rooms == <<
    Room("R001", "Pantry", 100, 100, 500, 400, "L001"),
    Room("R002", "Meeting Room", 600, 100, 500, 400, "L001"),
    Room("R003", "Office", 1100, 100, 500, 400, "L001"),
    Room("R004", "Conference Room", 100, 100, 600, 400, "L002"),
    Room("R005", "Executive Office", 700, 100, 400, 400, "L002"),
    Room("R006", "Break Room", 1100, 100, 500, 400, "L002"),
    Room("R007", "Training Room", 100, 500, 700, 300, "L002"),
    Room("R008", "Server Room", 100, 100, 400, 400, "L003"),
    Room("R009", "IT Office", 500, 100, 500, 400, "L003"),
    Room("R010", "Storage", 1000, 100, 400, 400, "L003") >>

\* Array.prototype.filter(e => e.levelId === levelId), as the GET handlers
\* of routes.js apply it to a catalog
RECURSIVE FilterLevel(_, _)
FilterLevel(seq, levelId) ==
    IF Len(seq) = 0 THEN <<>>
    ELSE IF Head(seq).levelId = levelId
         THEN <<Head(seq)>> \o FilterLevel(Tail(seq), levelId)
         ELSE FilterLevel(Tail(seq), levelId)

----------------------------------------------------------------------------
(* The server as a state machine: a handler runs to completion *)

NoBody ==
    [id |-> Undefined, name |-> "John", hasSignals |-> FALSE,
     signals |-> NoSignals, date |-> Undefined, levelId |-> Undefined]

NoRequest ==
    [method |-> "NONE", path |-> "", body |-> NoBody, query |-> Undefined,
     status |-> 0, payload |-> <<>>, before |-> <<>>]

\* The result of a pure function that has not been called yet.
NotCalled == [done |-> FALSE, value |-> <<>>]

Returned(v) == [done |-> TRUE, value |-> v]

\* The server after db.js and routes.js are loaded.
InitServer ==
    /\ catalog = [levels |-> levels, accessPoints |-> accessPoints, rooms |-> rooms]
    /\ deviceReadings = <<>>
    /\ last = NoRequest
    /\ inflight = {}
    /\ handled = {}

\* A client that has not started a refresh.
NoRefresh ==
    [pc |-> "idle", levelId |-> Undefined, pending |-> {},
     aps |-> <<>>, allReads |-> <<>>, reads |-> <<>>, rooms |-> <<>>,
     sidebar |-> <<>>, plot |-> <<>>]

\* None of trilaterate, getRoomForPosition, the level filters and
\* rssiToDistance is being called.
SolveIdle == solveArgs = <<>> /\ solved = NotCalled

LocateIdle == locateArgs = <<>> /\ roomName = NotCalled

FilterIdle == filterArgs = <<>> /\ filtered = NotCalled

DistanceIdle == rssiArgs = <<>> /\ distances = NotCalled

HelpersIdle == SolveIdle /\ LocateIdle /\ FilterIdle /\ DistanceIdle

\* server.js:35  currentLevelId = null before initApp has the levels
NullLevel == "<null>"

\* The properties of window that initApp and switchLevel assign, before the
\* first assignment.
NoWindow ==
    [currentLevelId |-> Undefined, accessPoints |-> <<>>, rooms |-> <<>>,
     levels |-> <<>>]

\* No call has plotted or located a device yet.
\* No reading.
NoDevice ==
    [id |-> Undefined, name |-> "", signals |-> NoSignals, date |-> Undefined,
     levelId |-> Undefined]

NoPlot ==
    [by |-> "none", readings |-> <<>>, accessPoints |-> <<>>, rooms |-> <<>>,
     displayed |-> Undefined, located |-> NoDevice]

\* server.js:33  let deviceVisibility = {}
NoVisibility == [known |-> {}, off |-> {}]

\* The page as the script finds it: nothing assigned, no handler running.
AppIdle ==
    /\ currentLevelId = NullLevel
    /\ window = NoWindow
    /\ initAppRooms = <<>>
    /\ tasks = <<>>
    /\ plotted = NoPlot
    /\ requested = Undefined
    /\ started = 0
    /\ deviceVisibility = NoVisibility

PlotIdle == plotArgs = <<>> /\ markers = NotCalled

UiIdle == AppIdle /\ PlotIdle

\* Neither getLatestReadings nor computeDevicePosition is being called.
LatestIdle == readings = <<>> /\ latestResult = NotCalled

ResolveIdle ==
    /\ argAccessPoints = <<>>
    /\ argSignals = <<>>
    /\ argRooms = <<>>
    /\ position = NotCalled

\* No client function is being called.
ClientIdle ==
    /\ readings = <<>>
    /\ latestResult = NotCalled
    /\ argAccessPoints = <<>>
    /\ argSignals = <<>>
    /\ argRooms = <<>>
    /\ position = NotCalled
    /\ HelpersIdle
    /\ refresh = NoRefresh
    /\ UiIdle

Init == InitServer /\ ClientIdle

\* router.post('/device-readings'), one run of the handler
Post(body) ==
    /\ deviceReadings' = PostStore(deviceReadings, body)
    /\ last' = [method |-> "POST", path |-> "/device-readings",
                body |-> body, query |-> Undefined,
                status |-> PostStatus(deviceReadings, body),
                payload |-> PostPayload(deviceReadings, body),
                before |-> deviceReadings]

\* router.put('/device-readings'), one run of the handler
Put(body) ==
    /\ deviceReadings' = PutStore(deviceReadings, body)
    /\ last' = [method |-> "PUT", path |-> "/device-readings",
                body |-> body, query |-> Undefined,
                status |-> PutStatus(deviceReadings, body),
                payload |-> PutPayload(deviceReadings, body),
                before |-> deviceReadings]

\* The level ids of the queries: none, two levels of db.js and one of no
\* catalog.
QueryLevelIds == {Undefined, "L001", "L002", "L999"}

\* What a GET handler leaves behind: the list sent, nothing written.
Sent(path, levelId, list) ==
    /\ deviceReadings' = deviceReadings
    /\ catalog' = catalog
    /\ last' = [method |-> "GET", path |-> path, body |-> NoBody, query |-> levelId,
                status |-> 200, payload |-> list, before |-> deviceReadings]

\* An access-points handler that filters the catalog in place.
GetAccessPointsInPlace(levelId) ==
    LET list == IF Truthy(levelId) THEN FilterLevel(catalog.accessPoints, levelId)
                ELSE catalog.accessPoints
    IN /\ deviceReadings' = deviceReadings
       /\ catalog' = [catalog EXCEPT !.accessPoints = list]
       /\ last' = [method |-> "GET", path |-> "/access-points", body |-> NoBody,
                   query |-> levelId, status |-> 200, payload |-> list,
                   before |-> deviceReadings]

\* router.get('/levels')
GetLevels == Sent("/levels", Undefined, catalog.levels)

\* router.get('/access-points')
GetAccessPoints(levelId) ==
    Sent("/access-points", levelId,
         IF Truthy(levelId) THEN FilterLevel(catalog.accessPoints, levelId)
         ELSE catalog.accessPoints)

\* router.get('/device-readings')
GetDeviceReadings(levelId) ==
    Sent("/device-readings", levelId,
         IF Truthy(levelId) THEN FilterLevel(deviceReadings, levelId)
         ELSE deviceReadings)

\* router.get('/rooms')
GetRooms(levelId) ==
    Sent("/rooms", levelId,
         IF Truthy(levelId) THEN FilterLevel(catalog.rooms, levelId)
         ELSE catalog.rooms)

\* The model stops growing the store at MaxStore records.
Fits(store) == Len(store) <= MaxStore

Next ==
    \/ \E body \in Requests :
          /\ Fits(PostStore(deviceReadings, body))
          /\ Post(body)
          /\ UNCHANGED <<inflight, handled, catalog, latestVars, resolveVars, helperVars, refresh, uiVars>>
    \/ \E body \in Requests :
          /\ Fits(PutStore(deviceReadings, body))
          /\ Put(body)
          /\ UNCHANGED <<inflight, handled, catalog, latestVars, resolveVars, helperVars, refresh, uiVars>>
    \/ /\ GetLevels
       /\ UNCHANGED <<inflight, handled, latestVars, resolveVars, helperVars, refresh, uiVars>>
    \/ \E levelId \in QueryLevelIds :
          /\ GetAccessPoints(levelId)
          /\ UNCHANGED <<inflight, handled, latestVars, resolveVars, helperVars, refresh, uiVars>>
    \/ \E levelId \in QueryLevelIds :
          /\ GetDeviceReadings(levelId)
          /\ UNCHANGED <<inflight, handled, latestVars, resolveVars, helperVars, refresh, uiVars>>
    \/ \E levelId \in QueryLevelIds :
          /\ GetRooms(levelId)
          /\ UNCHANGED <<inflight, handled, latestVars, resolveVars, helperVars, refresh, uiVars>>

Spec == Init /\ [][Next]_vars

----------------------------------------------------------------------------
(* Concurrent clients.  Requests are in flight together; Node runs one     *)
(* handler at a time, each to completion (the handlers of routes.js hold   *)
(* no await), in any order.                                                *)

ConcBodies ==
    {b \in Requests :
        /\ b.id \in {Undefined, "DEV001", "DEV002"}
        /\ b.hasSignals /\ b.signals = <<>>
        /\ b.date # Undefined
        /\ b.levelId \in {"L001", "L002"}}

ConcRequests == [method : {"POST", "PUT"}, body : ConcBodies]

\* A client sends a request: it gets the next ticket and is in flight.
Send(method, body) ==
    /\ Cardinality(inflight) + Cardinality(handled) < MaxRequests
    /\ inflight' = inflight \cup
          {[n |-> Cardinality(inflight) + Cardinality(handled) + 1,
            method |-> method, body |-> body]}
    /\ UNCHANGED <<deviceReadings, last, handled, catalog, latestVars, resolveVars,
                   helperVars, refresh, uiVars>>

\* A handler that works on the array as it was before the previous handler ran.
ServeStale(req) ==
    /\ req \in inflight
    /\ deviceReadings' =
          IF req.method = "POST" THEN PostStore(last.before, req.body)
                                 ELSE PutStore(last.before, req.body)
    /\ last' = [method |-> req.method, path |-> "/device-readings",
                body |-> req.body, query |-> Undefined,
                status |-> IF req.method = "POST"
                           THEN PostStatus(last.before, req.body)
                           ELSE PutStatus(last.before, req.body),
                payload |-> IF req.method = "POST"
                            THEN PostPayload(last.before, req.body)
                            ELSE PutPayload(last.before, req.body),
                before |-> deviceReadings]
    /\ inflight' = inflight \ {req}
    /\ handled' = handled \cup {req}
    /\ UNCHANGED <<catalog, latestVars, resolveVars, helperVars, refresh, uiVars>>

\* The event loop picks a request in flight and runs its handler.
Serve(req) ==
    /\ req \in inflight
    /\ \/ req.method = "POST" /\ Post(req.body)
       \/ req.method = "PUT" /\ Put(req.body)
    /\ inflight' = inflight \ {req}
    /\ handled' = handled \cup {req}
    /\ UNCHANGED <<catalog, latestVars, resolveVars, helperVars, refresh, uiVars>>

NextConc ==
    \/ \E r \in ConcRequests : Send(r.method, r.body)
    \/ \E req \in inflight : Serve(req)

SpecConc == Init /\ [][NextConc]_vars

----------------------------------------------------------------------------
(* A client refresh (switchLevel): four GET requests are sent together by   *)
(* Promise.all; the server handles them one at a time, in any order, and    *)
(* may handle the writes of other clients in between.  When the four        *)
(* answers are in, the client renders.                                      *)

RefreshLevels == {"L001", "L002"}

\* switchLevel(levelId) up to the await: the four fetches are in flight.
StartRefresh(levelId) ==
    /\ refresh.pc = "idle"
    /\ refresh' = [refresh EXCEPT !.pc = "fetching", !.levelId = levelId,
                       !.pending = {"aps", "allReads", "reads", "rooms"}]
    /\ UNCHANGED <<deviceReadings, last, catalog, inflight, handled, latestVars,
                   resolveVars, helperVars, uiVars>>

\* The server handles fetchAccessPoints(levelId).
AnswerAccessPoints ==
    /\ "aps" \in refresh.pending
    /\ GetAccessPoints(refresh.levelId)
    /\ refresh' = [refresh EXCEPT !.pending = @ \ {"aps"}, !.aps = last'.payload]
    /\ UNCHANGED <<inflight, handled, latestVars, resolveVars, helperVars, uiVars>>

\* The server handles fetchDeviceReadings().
AnswerAllReadings ==
    /\ "allReads" \in refresh.pending
    /\ GetDeviceReadings(Undefined)
    /\ refresh' = [refresh EXCEPT !.pending = @ \ {"allReads"},
                                  !.allReads = last'.payload]
    /\ UNCHANGED <<inflight, handled, latestVars, resolveVars, helperVars, uiVars>>

\* The server handles fetchDeviceReadings(levelId).
AnswerLevelReadings ==
    /\ "reads" \in refresh.pending
    /\ GetDeviceReadings(refresh.levelId)
    /\ refresh' = [refresh EXCEPT !.pending = @ \ {"reads"}, !.reads = last'.payload]
    /\ UNCHANGED <<inflight, handled, latestVars, resolveVars, helperVars, uiVars>>

\* The server handles fetchRooms(levelId).
AnswerRooms ==
    /\ "rooms" \in refresh.pending
    /\ GetRooms(refresh.levelId)
    /\ refresh' = [refresh EXCEPT !.pending = @ \ {"rooms"}, !.rooms = last'.payload]
    /\ UNCHANGED <<inflight, handled, latestVars, resolveVars, helperVars, uiVars>>

\* switchLevel after the await: updateSidebar(allReads) and
\* updateDevicePlot(filterReadingsByLevel(reads, levelId), ...)
Render ==
    /\ refresh.pc = "fetching"
    /\ refresh.pending = {}
    /\ refresh' = [refresh EXCEPT !.pc = "rendered", !.sidebar = refresh.allReads,
                       !.plot = FilterLevel(refresh.reads, refresh.levelId)]
    /\ UNCHANGED <<deviceReadings, last, catalog, inflight, handled, latestVars,
                   resolveVars, helperVars, uiVars>>

\* Another client's PUT or POST is handled.
OtherWrite(method, body) ==
    /\ \/ method = "POST" /\ Fits(PostStore(deviceReadings, body)) /\ Post(body)
       \/ method = "PUT" /\ Fits(PutStore(deviceReadings, body)) /\ Put(body)
    /\ UNCHANGED <<catalog, refresh, inflight, handled, latestVars, resolveVars,
                   helperVars, uiVars>>

NextRefresh ==
    \/ \E levelId \in RefreshLevels : StartRefresh(levelId)
    \/ AnswerAccessPoints
    \/ AnswerAllReadings
    \/ AnswerLevelReadings
    \/ AnswerRooms
    \/ Render
    \/ \E r \in ConcRequests : OtherWrite(r.method, r.body)

SpecRefresh == Init /\ [][NextRefresh]_vars

----------------------------------------------------------------------------
(* server.js (client script): getLatestReadings *)

\* new Date(string).getTime() in seconds, for the date strings of the model;
\* any other string, and undefined, give an Invalid Date (NaN).
DateTable ==
    ("2024-01-01T00:00:00.000Z" :> 1704067200) @@
    ("2024-01-01T01:00:00.000+01:00" :> 1704067200) @@
    ("2024-01-02T00:00:00.000Z" :> 1704153600)

ValidDate(d) == d \in DOMAIN DateTable

\* new Date(a) > new Date(b): false as soon as one side is NaN
DateGreater(a, b) ==
    /\ ValidDate(a)
    /\ ValidDate(b)
    /\ DateTable[a] > DateTable[b]

\* The property names every object literal inherits from Object.prototype;
\* reading one of them from {} gives a function or an object, which is truthy
\* and has no date.
ObjectPrototypeKeys ==
    {"constructor", "__proto__", "hasOwnProperty", "isPrototypeOf",
     "propertyIsEnumerable", "toLocaleString", "toString", "valueOf",
     "__defineGetter__", "__defineSetter__", "__lookupGetter__",
     "__lookupSetter__"}

\* The own property of latest under key, as an index into its values, or 0.
\* (latest is kept as the sequence of its own values, in insertion order; the
\* key of a value is its id.)
OwnIndex(latest, key) ==
    IF \E i \in 1..Len(latest) : latest[i].id = key
    THEN CHOOSE i \in 1..Len(latest) : latest[i].id = key
    ELSE 0

\* The object latest after forEach has visited the first n readings.
RECURSIVE LatestAfter(_, _)
LatestAfter(rs, n) ==
    IF n = 0 THEN <<>>
    ELSE LET latest == LatestAfter(rs, n - 1)
             reading == rs[n]
             own == OwnIndex(latest, reading.id)
             \* latest[reading.id] is falsy: no own and no inherited property
             absent == own = 0 /\ reading.id \notin ObjectPrototypeKeys
             \* latest[reading.id].date
             keptDate == IF own # 0 THEN latest[own].date ELSE Undefined
         IN IF absent \/ DateGreater(reading.date, keptDate)
            THEN IF own = 0 THEN Append(latest, reading)
                            ELSE [latest EXCEPT ![own] = reading]
            ELSE latest

\* Object.values(latest)
getLatestReadings(rs) == LatestAfter(rs, Len(rs))

\* The readings getLatestReadings is called with: records the store accepts.
ReadingIds == {"DEV001", "DEV002", "constructor"}
ReadingDates == DOMAIN DateTable \cup {"not-a-date"}
ReadingLevelIds == {"L001", "L002"}

ReadingRecords ==
    [id : ReadingIds, name : {"John"}, signals : {<<>>},
     date : ReadingDates, levelId : ReadingLevelIds]

SeqsUpTo(S, n) == UNION {[1..k -> S] : k \in 0..n}

InitLatest ==
    /\ InitServer
    /\ readings \in SeqsUpTo(ReadingRecords, MaxReadings)
    /\ latestResult = NotCalled
    /\ argAccessPoints = <<>>
    /\ argSignals = <<>>
    /\ argRooms = <<>>
    /\ position = NotCalled
    /\ HelpersIdle
    /\ refresh = NoRefresh
    /\ UiIdle

CallGetLatestReadings ==
    /\ ~latestResult.done
    /\ latestResult' = Returned(getLatestReadings(readings))
    /\ UNCHANGED <<deviceReadings, last, inflight, handled, catalog, readings,
                   resolveVars, helperVars, refresh, uiVars>>

NextLatest == CallGetLatestReadings

SpecLatest == InitLatest /\ [][NextLatest]_vars

----------------------------------------------------------------------------
(* The store written only by PUT, from empty, and read by a client that     *)
(* lists the latest reading of each device.                                 *)

\* The bodies put: valid ones, for a plain id and for an id that is also a
\* property name of Object.prototype, with dates that parse and one that
\* does not.
UpsertIds == {"DEV001", "constructor"}

UpsertDates == {"2024-01-01T00:00:00.000Z", "2024-01-02T00:00:00.000Z", "not-a-date"}

UpsertBodies ==
    [id : UpsertIds, name : BodyNames, hasSignals : {TRUE}, signals : {NoSignals},
     date : UpsertDates, levelId : ReadingLevelIds]

InitUpsert == Init

UpsertReading(body) ==
    /\ Put(body)
    /\ UNCHANGED <<inflight, handled, catalog, latestVars, resolveVars, helperVars,
                   refresh, uiVars>>

\* const allReads = await fetchDeviceReadings(); getLatestReadings(allReads)
ListLatest ==
    /\ GetDeviceReadings(Undefined)
    /\ readings' = last'.payload
    /\ latestResult' = Returned(getLatestReadings(last'.payload))
    /\ UNCHANGED <<inflight, handled, resolveVars, helperVars, refresh, uiVars>>

NextUpsert ==
    \/ \E body \in UpsertBodies : UpsertReading(body)
    \/ ListLatest

SpecUpsert == InitUpsert /\ [][NextUpsert]_vars

----------------------------------------------------------------------------
(* server.js (client script): the localisation helpers.  Numbers that the   *)
(* script holds as floats are exact fractions here.                        *)

DISTANCE_SCALE == 50
RSSI_TX_POWER == -45

\* 10 * PATH_LOSS_EXPONENT, the divisor of the exponent (10 * 2.2)
TenTimesPathLoss == 22

\* The rssi samples whose distance is an exact number of grid units:
\* (tx - rssi) / 22 is -1, 0 or 1, the distance 5, 50 or 500 source units.
ExactRssi == {-23, -45, -67}

\* Math.pow(10, k) for a whole k >= 0
RECURSIVE Pow10(_)
Pow10(k) == IF k = 0 THEN 1 ELSE 10 * Pow10(k - 1)

\* Math.pow(10, j / 22) for j = 0, ..., 21, in thousandths (rounded)
TenToThe22ths ==
    << 1000, 1110, 1233, 1369, 1520, 1688, 1874, 2081,
       2310, 2565, 2848, 3162, 3511, 3899, 4329, 4806,
       5337, 5926, 6579, 7305, 8111, 9006 >>

\* An estimate that grows with rssi: the exponent is (rssi - tx) / (10 * n).
rssiToDistanceRising(rssi) ==
    LET e == rssi - RSSI_TX_POWER
        q == e \div TenTimesPathLoss
        j == e % TenTimesPathLoss
        m == TenToThe22ths[j + 1] * DISTANCE_SCALE
    IN IF q >= 0 THEN m * Pow10(q) ELSE m \div Pow10(-q)

\* Math.pow(10, (tx - rssi) / (10 * n)) * DISTANCE_SCALE, in thousandths of a
\* source unit: the exponent is q + j / 22 with q whole and 0 <= j < 22.
rssiToDistance(rssi) ==
    LET e == RSSI_TX_POWER - rssi
        q == e \div TenTimesPathLoss
        j == e % TenTimesPathLoss
        m == TenToThe22ths[j + 1] * DISTANCE_SCALE
    IN IF q >= 0 THEN m * Pow10(q) ELSE m \div Pow10(-q)

\* A distance is held as the square root of a whole number, so that the
\* distance between two points of the grid is exact: Root(n) is sqrt(n), and
\* Sq(r) is r * r.
Root(n) == [sq |-> n]

Sq(r) == r.sq

\* A distance that rssiToDistance returned, as trilaterate takes it: on the
\* grid (exact for the samples of ExactRssi).
Measured(d) == Root(ToGrid(d \div 1000) * ToGrid(d \div 1000))

\* The fraction n / d, with a positive denominator.
Frac(n, d) == IF d < 0 THEN [num |-> -n, den |-> -d] ELSE [num |-> n, den |-> d]

\* fraction >= integer, fraction <= integer
FracGeq(f, k) == f.num >= k * f.den
FracLeq(f, k) == f.num <= k * f.den

\* A result that is null.
Null == [null |-> TRUE, x |-> Frac(0, 1), y |-> Frac(0, 1)]

Point(x, y) == [null |-> FALSE, x |-> x, y |-> y]

\* A locator whose far edges (x + width, y + height) are outside the room.
RECURSIVE getRoomForPositionHalfOpen(_, _, _)
getRoomForPositionHalfOpen(x, y, rms) ==
    IF Len(rms) = 0 THEN "Outside"
    ELSE LET room == Head(rms)
         IN IF /\ FracGeq(x, room.x) /\ ~FracGeq(x, room.x + room.width)
               /\ FracGeq(y, room.y) /\ ~FracGeq(y, room.y + room.height)
            THEN room.name
            ELSE getRoomForPositionHalfOpen(x, y, Tail(rms))

RECURSIVE getRoomForPosition(_, _, _)
getRoomForPosition(x, y, rms) ==
    IF Len(rms) = 0 THEN "Outside"
    ELSE LET room == Head(rms)
         IN IF /\ FracGeq(x, room.x) /\ FracLeq(x, room.x + room.width)
               /\ FracGeq(y, room.y) /\ FracLeq(y, room.y + room.height)
            THEN room.name
            ELSE getRoomForPosition(x, y, Tail(rms))

\* A solver without the test of denom.
trilaterateNoCheck(p1, p2, p3) ==
    LET xa == p1.x  ya == p1.y  ra == p1.d
        xb == p2.x  yb == p2.y  rb == p2.d
        xc == p3.x  yc == p3.y  rc == p3.d
        A == 2 * (xa - xb)
        B == 2 * (ya - yb)
        C == Sq(rb) - Sq(ra) - xb * xb + xa * xa - yb * yb + ya * ya
        D == 2 * (xa - xc)
        E == 2 * (ya - yc)
        F == Sq(rc) - Sq(ra) - xc * xc + xa * xa - yc * yc + ya * ya
        denom == A * E - B * D
    IN Point(Frac(C * E - B * F, denom), Frac(A * F - C * D, denom))

\* A solver that takes the constant terms with the opposite sign.
trilaterateNegated(p1, p2, p3) ==
    LET xa == p1.x  ya == p1.y  ra == p1.d
        xb == p2.x  yb == p2.y  rb == p2.d
        xc == p3.x  yc == p3.y  rc == p3.d
        A == 2 * (xa - xb)
        B == 2 * (ya - yb)
        C == Sq(ra) - Sq(rb) - xb * xb + xa * xa - yb * yb + ya * ya
        D == 2 * (xa - xc)
        E == 2 * (ya - yc)
        F == Sq(ra) - Sq(rc) - xc * xc + xa * xa - yc * yc + ya * ya
        denom == A * E - B * D
    IN IF denom = 0 THEN Null
       ELSE Point(Frac(C * E - B * F, denom), Frac(A * F - C * D, denom))

\* With whole coordinates denom is whole, so |denom| < 1e-6 is denom = 0.
trilaterate(p1, p2, p3) ==
    LET xa == p1.x  ya == p1.y  ra == p1.d
        xb == p2.x  yb == p2.y  rb == p2.d
        xc == p3.x  yc == p3.y  rc == p3.d
        A == 2 * (xa - xb)
        B == 2 * (ya - yb)
        C == Sq(rb) - Sq(ra) - xb * xb + xa * xa - yb * yb + ya * ya
        D == 2 * (xa - xc)
        E == 2 * (ya - yc)
        F == Sq(rc) - Sq(ra) - xc * xc + xa * xa - yc * yc + ya * ya
        denom == A * E - B * D
    IN IF denom = 0 THEN Null
       ELSE Point(Frac(C * E - B * F, denom), Frac(A * F - C * D, denom))

\* What Array.prototype.find returns: an element, or undefined.
Found(ap) == [found |-> TRUE, ap |-> ap]

NotFound == [found |-> FALSE, ap |-> AccessPoint(Undefined, 0, 0, Undefined)]

\* A lookup in the whole catalog of db.js instead of the access points passed.
FindAccessPointAnyLevel(aps, apId) ==
    IF \E i \in 1..Len(accessPoints) : accessPoints[i].id = apId
    THEN Found(accessPoints[CHOOSE i \in 1..Len(accessPoints) :
                    /\ accessPoints[i].id = apId
                    /\ \A j \in 1..(i - 1) : accessPoints[j].id # apId])
    ELSE NotFound

\* accessPoints.find(ap => ap.id === apId): the first access point with that
\* id, or undefined
FindAccessPoint(aps, apId) ==
    IF \E i \in 1..Len(aps) : aps[i].id = apId
    THEN Found(aps[CHOOSE i \in 1..Len(aps) :
                    /\ aps[i].id = apId
                    /\ \A j \in 1..(i - 1) : aps[j].id # apId])
    ELSE NotFound

\* signals.filter(s => accessPoints.find(ap => ap.id === s.apId))
RECURSIVE ValidSignals(_, _)
ValidSignals(aps, signals) ==
    IF Len(signals) = 0 THEN <<>>
    ELSE IF FindAccessPoint(aps, Head(signals).apId).found
         THEN <<Head(signals)>> \o ValidSignals(aps, Tail(signals))
         ELSE ValidSignals(aps, Tail(signals))

\* The end of computeDevicePosition: the candidate of three points, kept when
\* a room holds it.
SolveInRooms(p1, p2, p3, rms) ==
    LET pos == trilaterate(p1, p2, p3)
    IN IF pos.null THEN Null
       ELSE IF getRoomForPosition(pos.x, pos.y, rms) = "Outside"
            THEN Null
            ELSE pos

\* A resolver that trilaterates the last three valid signals.
computeDevicePositionLastThree(aps, signals, rms) ==
    IF Len(signals) < 3 THEN Null
    ELSE LET validSignals == ValidSignals(aps, signals)
         IN IF Len(validSignals) < 3 THEN Null
            ELSE LET n == Len(validSignals)
                     points ==
                        [i \in 1..n |->
                            LET ap == FindAccessPoint(aps, validSignals[i].apId).ap
                            IN [x |-> ap.x, y |-> ap.y,
                                d |-> Measured(rssiToDistance(validSignals[i].rssi))]]
                     pos == trilaterate(points[n - 2], points[n - 1], points[n])
                 IN IF pos.null THEN Null
                    ELSE IF getRoomForPosition(pos.x, pos.y, rms) = "Outside"
                         THEN Null
                         ELSE pos

\* A resolver that returns the candidate whether or not a room holds it.
computeDevicePositionNoRoomCheck(aps, signals, rms) ==
    IF Len(signals) < 3 THEN Null
    ELSE LET validSignals == ValidSignals(aps, signals)
         IN IF Len(validSignals) < 3 THEN Null
            ELSE LET points ==
                        [i \in 1..Len(validSignals) |->
                            LET ap == FindAccessPoint(aps, validSignals[i].apId).ap
                            IN [x |-> ap.x, y |-> ap.y,
                                d |-> Measured(rssiToDistance(validSignals[i].rssi))]]
                 IN trilaterate(points[1], points[2], points[3])

\* A resolver that drops the signals repeating an earlier apId before it
\* takes the first three.
computeDevicePositionDistinctAps(aps, signals, rms) ==
    IF Len(signals) < 3 THEN Null
    ELSE LET validSignals == ValidSignals(aps, signals)
             firsts == {i \in 1..Len(validSignals) :
                           \A j \in 1..(i - 1) :
                               validSignals[j].apId # validSignals[i].apId}
             nth(k) == CHOOSE i \in firsts :
                           Cardinality({j \in firsts : j < i}) = k - 1
         IN IF Cardinality(firsts) < 3 THEN Null
            ELSE LET points ==
                        [k \in 1..3 |->
                            LET sig == validSignals[nth(k)]
                                ap == FindAccessPoint(aps, sig.apId).ap
                            IN [x |-> ap.x, y |-> ap.y,
                                d |-> Measured(rssiToDistance(sig.rssi))]]
                 IN SolveInRooms(points[1], points[2], points[3], rms)

computeDevicePosition(aps, signals, rms) ==
    IF Len(signals) < 3 THEN Null
    ELSE LET validSignals == ValidSignals(aps, signals)
         IN IF Len(validSignals) < 3 THEN Null
            ELSE LET points ==
                        [i \in 1..Len(validSignals) |->
                            LET ap == FindAccessPoint(aps, validSignals[i].apId).ap
                            IN [x |-> ap.x, y |-> ap.y,
                                d |-> Measured(rssiToDistance(validSignals[i].rssi))]]
                 IN SolveInRooms(points[1], points[2], points[3], rms)

\* The signals of the model: access points of two levels and one that is in
\* no catalog.
SignalApIds == {"AP000001", "AP000002", "AP000003", "AP000008", "AP999999"}
SignalRssi == {-45, -67}
Signals == [apId : SignalApIds, rssi : SignalRssi]

\* The levels whose catalogs are passed to computeDevicePosition.
ResolveLevels == {"L001", "L002"}

InitResolve ==
    /\ InitServer
    /\ readings = <<>>
    /\ latestResult = NotCalled
    /\ \E l \in ResolveLevels : argAccessPoints = FilterLevel(accessPoints, l)
    /\ \E l \in ResolveLevels : argRooms = FilterLevel(rooms, l)
    /\ argSignals \in SeqsUpTo(Signals, MaxSignals)
    /\ position = NotCalled
    /\ HelpersIdle
    /\ refresh = NoRefresh
    /\ UiIdle

CallComputeDevicePosition ==
    /\ ~position.done
    /\ position' =
          Returned(computeDevicePosition(argAccessPoints, argSignals, argRooms))
    /\ UNCHANGED <<deviceReadings, last, inflight, handled, catalog, latestVars,
                   argAccessPoints, argSignals, argRooms, helperVars, refresh, uiVars>>

NextResolve == CallComputeDevicePosition

SpecResolve == InitResolve /\ [][NextResolve]_vars

----------------------------------------------------------------------------
(* updateDevicePlot: where the marker, the label and the tooltip of each    *)
(* device go.                                                               *)

\* server.js:28  DEFAULT_POSITION = { x: 200, y: 200 }
DEFAULT_POSITION == [x |-> Frac(ToGrid(200), 1), y |-> Frac(ToGrid(200), 1)]

\* value || fallback for a number: 0 is falsy
OrNumber(f, fallback) == IF f.num = 0 THEN fallback ELSE f

\* pos?.x || DEFAULT_POSITION.x and pos?.y || DEFAULT_POSITION.y
XOrDefault(pos) == IF pos.null THEN DEFAULT_POSITION.x
                   ELSE OrNumber(pos.x, DEFAULT_POSITION.x)

YOrDefault(pos) == IF pos.null THEN DEFAULT_POSITION.y
                   ELSE OrNumber(pos.y, DEFAULT_POSITION.y)

\* pos || DEFAULT_POSITION for an object: only null is falsy
PosOrDefault(pos) ==
    IF pos.null THEN Point(DEFAULT_POSITION.x, DEFAULT_POSITION.y) ELSE pos

\* f + k for k source units (a grid unit is 5 of them)
PlusSource(f, k) == Frac(5 * f.num + k * f.den, 5 * f.den)

\* What updateDevicePlot draws for the readings: a circle (cx, cy) and a label
\* for each device that is not switched off, and the room its tooltip names.
\* hidden holds the ids with deviceVisibility[id] === false.
updateDevicePlot(rds, aps, rms, hidden) ==
    LET latest == getLatestReadings(rds)
        deviceData == SelectSeq(latest, LAMBDA d : d.id \notin hidden)
    IN [i \in 1..Len(deviceData) |->
           LET d == deviceData[i]
               pos == computeDevicePosition(aps, d.signals, rms)
               shown == PosOrDefault(pos)
           IN [id |-> d.id, cx |-> XOrDefault(pos), cy |-> YOrDefault(pos),
               labelX |-> XOrDefault(pos), labelY |-> PlusSource(YOrDefault(pos), 4),
               room |-> getRoomForPosition(shown.x, shown.y, rms)]]

\* The room of the example: (0, 0, 100, 100).
ExampleRooms == <<Room("R", "R", 0, 0, 100, 100, "L1")>>

\* Three access points 50 away from the point (0, 50) of that room.
ExampleAccessPoints ==
    <<AccessPoint("A1", 0, 0, "L1"), AccessPoint("A2", 50, 50, "L1"),
      AccessPoint("A3", 0, 100, "L1")>>

\* The floors plotted: the first level of db.js, and the example.
PlotFloors ==
    {[accessPoints |-> FilterLevel(accessPoints, "L001"),
      rooms |-> FilterLevel(rooms, "L001")],
     [accessPoints |-> ExampleAccessPoints, rooms |-> ExampleRooms]}

\* The signals of a plotted device: none, or one of each of the first three
\* access points of the floor.
PlotSignals(aps) ==
    {NoSignals} \cup
    {[i \in 1..3 |-> Signal(aps[i].id, r[i])] : r \in [1..3 -> SignalRssi]}

MaxPlotted == 2

PlotDevices == <<"DEV001", "DEV002", "DEV003", "DEV004">>

\* Readings of the first n devices, one each.
PlotReadings(aps, n) ==
    {[i \in 1..n |-> [id |-> PlotDevices[i], name |-> "John", signals |-> sig[i],
                      date |-> "2024-01-01T00:00:00.000Z", levelId |-> aps[1].levelId]] :
        sig \in [1..n -> PlotSignals(aps)]}

InitPlot ==
    /\ InitServer
    /\ LatestIdle /\ ResolveIdle /\ HelpersIdle
    /\ refresh = NoRefresh
    /\ AppIdle
    /\ \E floor \in PlotFloors, n \in 1..MaxPlotted, hidden \in SUBSET {"DEV001"} :
          \E rds \in PlotReadings(floor.accessPoints, n) :
              plotArgs = [readings |-> rds, accessPoints |-> floor.accessPoints,
                          rooms |-> floor.rooms, hidden |-> hidden]
    /\ markers = NotCalled

CallUpdateDevicePlot ==
    /\ ~markers.done
    /\ markers' = Returned(updateDevicePlot(plotArgs.readings, plotArgs.accessPoints,
                                            plotArgs.rooms, plotArgs.hidden))
    /\ UNCHANGED <<deviceReadings, last, inflight, handled, catalog, latestVars,
                   resolveVars, helperVars, refresh, clientVars, plotArgs>>

NextPlot == CallUpdateDevicePlot

SpecPlot == InitPlot /\ [][NextPlot]_vars

----------------------------------------------------------------------------
(* The page: initApp and the listeners it adds.  A listener runs to its     *)
(* next await in one step; a step that follows an await reads the           *)
(* variables as they are then.  The request a step waits for is handled by  *)
(* the server as the step begins.                                           *)

\* The levels that are clicked, and that the post button draws.
ClientLevelIds == {"L001", "L002"}

\* How many listeners wait for a response at once, and how many are started.
MaxTasks == 2
MaxStarted == 3

\* The devices simulateDeviceReadings draws, with their names.
SimDevices == {"DEV001", "DEV002"}

SimName(id) == IF id = "DEV001" THEN "John" ELSE "Alice"

\* A listener that waits at an await: pc names the await; levelId is the
\* level it switches to or posts for, fetched the level its readings were
\* asked for, device the reading a search has matched.
Task(kind, pc, levelId, fetched, device) ==
    [kind |-> kind, pc |-> pc, levelId |-> levelId, fetched |-> fetched,
     device |-> device]

RemoveAt(seq, i) == SubSeq(seq, 1, i - 1) \o SubSeq(seq, i + 1, Len(seq))

\* initApp adds the listeners after its awaits.
Ready == window.levels # <<>>

CanStart == Ready /\ Len(tasks) < MaxTasks /\ started < MaxStarted

\* await fetchAccessPoints(levelId), await fetchRooms(levelId)
ApsOf(levelId) == FilterLevel(catalog.accessPoints, levelId)

RoomsOf(levelId) == FilterLevel(catalog.rooms, levelId)

\* filterReadingsByLevel(await fetchDeviceReadings(fetched), levelId)
ReadsOf(fetched, levelId) ==
    FilterLevel(FilterLevel(deviceReadings, fetched), levelId)

\* The arguments of a call of updateDevicePlot, the level displayed at the
\* call, and the reading that the search result locates after it.
Plot(by, rds, aps, rms, displayed, located) ==
    [by |-> by, readings |-> rds, accessPoints |-> aps, rooms |-> rms,
     displayed |-> displayed, located |-> located]

\* updateSidebar(allReads): each device listed is visible unless switched off
Listed(vis) ==
    LET latest == getLatestReadings(deviceReadings)
    IN [vis EXCEPT !.known = @ \cup {latest[i].id : i \in 1..Len(latest)}]

\* A switch that assigns the access points and the level, and keeps the rooms.
WindowAfterSwitchKeepsRooms(w, levelId) ==
    [w EXCEPT !.accessPoints = ApsOf(levelId), !.currentLevelId = levelId]

\* switchLevel after its await: window.accessPoints = aps; window.rooms =
\* rooms; window.currentLevelId = levelId
WindowAfterSwitch(w, levelId) ==
    [w EXCEPT !.accessPoints = ApsOf(levelId), !.rooms = RoomsOf(levelId),
              !.currentLevelId = levelId]

\* initApp, from its first await to the listeners
InitApp ==
    /\ ~Ready
    /\ currentLevelId = NullLevel
    /\ LET first == catalog.levels[1].id
       IN /\ currentLevelId' = first
          /\ window' = [currentLevelId |-> first, accessPoints |-> ApsOf(first),
                        rooms |-> RoomsOf(first), levels |-> catalog.levels]
          /\ initAppRooms' = RoomsOf(first)
          /\ plotted' = Plot("initApp", ReadsOf(first, first), ApsOf(first),
                             RoomsOf(first), first, NoDevice)
    /\ deviceVisibility' = Listed(deviceVisibility)
    /\ UNCHANGED <<tasks, requested, started>>
    /\ UNCHANGED <<deviceReadings, last, inflight, handled, catalog, latestVars,
                   resolveVars, helperVars, refresh, plotVars>>

\* The click listener of a level item: currentLevelId = level.id; await
\* switchLevel(currentLevelId)
ClickLevel(levelId) ==
    /\ CanStart
    /\ \E i \in 1..Len(window.levels) : window.levels[i].id = levelId
    /\ currentLevelId' = levelId
    /\ requested' = levelId
    /\ tasks' = Append(tasks, Task("click", "switch", levelId, Undefined, NoDevice))
    /\ started' = started + 1
    /\ UNCHANGED <<window, initAppRooms, plotted, deviceVisibility>>
    /\ UNCHANGED <<deviceReadings, last, inflight, handled, catalog, latestVars,
                   resolveVars, helperVars, refresh, plotVars>>

\* switchLevel after its await, called by a click or by a search; the search
\* goes on to await fetchDeviceReadings(window.currentLevelId).
FinishSwitch(i) ==
    /\ tasks[i].pc = "switch"
    /\ LET levelId == tasks[i].levelId
       IN /\ window' = WindowAfterSwitch(window, levelId)
          /\ plotted' = Plot("switchLevel", ReadsOf(levelId, levelId), ApsOf(levelId),
                             RoomsOf(levelId), levelId, NoDevice)
          /\ tasks' = IF tasks[i].kind = "search"
                      THEN [tasks EXCEPT ![i].pc = "highlight", ![i].fetched = levelId]
                      ELSE RemoveAt(tasks, i)
    /\ deviceVisibility' = Listed(deviceVisibility)
    /\ UNCHANGED <<currentLevelId, initAppRooms, requested, started>>
    /\ UNCHANGED <<deviceReadings, last, inflight, handled, catalog, latestVars,
                   resolveVars, helperVars, refresh, plotVars>>

\* The change listener of a device's checkbox, to its await.
ToggleDevice(id) ==
    /\ CanStart
    /\ id \in deviceVisibility.known
    /\ deviceVisibility' =
          [deviceVisibility EXCEPT
              !.off = IF id \in @ THEN @ \ {id} ELSE @ \cup {id}]
    /\ tasks' = Append(tasks, Task("checkbox", "refresh", Undefined,
                                   window.currentLevelId, NoDevice))
    /\ started' = started + 1
    /\ UNCHANGED <<currentLevelId, window, initAppRooms, plotted, requested>>
    /\ UNCHANGED <<deviceReadings, last, inflight, handled, catalog, latestVars,
                   resolveVars, helperVars, refresh, plotVars>>

\* The input listener of the search box, to its first await: with an empty
\* term it asks for the readings of the level displayed, else for all.
SearchInput(empty) ==
    /\ CanStart
    /\ tasks' = Append(tasks,
                       IF empty
                       THEN Task("search", "refresh", Undefined,
                                 window.currentLevelId, NoDevice)
                       ELSE Task("search", "all", Undefined, Undefined, NoDevice))
    /\ started' = started + 1
    /\ UNCHANGED <<currentLevelId, window, initAppRooms, plotted, requested,
                   deviceVisibility>>
    /\ UNCHANGED <<deviceReadings, last, inflight, handled, catalog, latestVars,
                   resolveVars, helperVars, refresh, plotVars>>

\* The search with all readings: the term matches the k-th of the latest
\* readings first, and switchLevel(matchingDevice.levelId) is called.
SearchMatch(i, k) ==
    /\ tasks[i].pc = "all"
    /\ k \in 1..Len(getLatestReadings(deviceReadings))
    /\ LET matchingDevice == getLatestReadings(deviceReadings)[k]
       IN /\ tasks' = [tasks EXCEPT ![i].pc = "switch",
                                    ![i].levelId = matchingDevice.levelId,
                                    ![i].device = matchingDevice]
          /\ requested' = matchingDevice.levelId
    /\ UNCHANGED <<currentLevelId, window, initAppRooms, plotted, started,
                   deviceVisibility>>
    /\ UNCHANGED <<deviceReadings, last, inflight, handled, catalog, latestVars,
                   resolveVars, helperVars, refresh, plotVars>>

\* The search with all readings: the term matches none.
SearchNoMatch(i) ==
    /\ tasks[i].pc = "all"
    /\ tasks' = [tasks EXCEPT ![i].pc = "refresh",
                              ![i].fetched = window.currentLevelId]
    /\ UNCHANGED <<currentLevelId, window, initAppRooms, plotted, requested, started,
                   deviceVisibility>>
    /\ UNCHANGED <<deviceReadings, last, inflight, handled, catalog, latestVars,
                   resolveVars, helperVars, refresh, plotVars>>

\* The search after switchLevel and the readings of the level: it plots and
\* locates the matching device with the window's access points and rooms.
SearchHighlight(i) ==
    /\ tasks[i].pc = "highlight"
    /\ plotted' = Plot("searchResult",
                       ReadsOf(tasks[i].fetched, window.currentLevelId),
                       window.accessPoints, window.rooms, window.currentLevelId,
                       tasks[i].device)
    /\ tasks' = RemoveAt(tasks, i)
    /\ UNCHANGED <<currentLevelId, window, initAppRooms, requested, started,
                   deviceVisibility>>
    /\ UNCHANGED <<deviceReadings, last, inflight, handled, catalog, latestVars,
                   resolveVars, helperVars, refresh, plotVars>>

\* A checkbox change, or a search without a match, after its await: it plots
\* the readings asked for with the window's level, access points and rooms.
FinishRefresh(i) ==
    /\ tasks[i].pc = "refresh"
    /\ plotted' = Plot(tasks[i].kind,
                       ReadsOf(tasks[i].fetched, window.currentLevelId),
                       window.accessPoints, window.rooms, window.currentLevelId,
                       NoDevice)
    /\ deviceVisibility' = IF tasks[i].kind = "checkbox"
                           THEN Listed(deviceVisibility) ELSE deviceVisibility
    /\ tasks' = RemoveAt(tasks, i)
    /\ UNCHANGED <<currentLevelId, window, initAppRooms, requested, started>>
    /\ UNCHANGED <<deviceReadings, last, inflight, handled, catalog, latestVars,
                   resolveVars, helperVars, refresh, plotVars>>

\* The click listener of the post button, to its first await: a level drawn
\* from window.levels, and its access points asked for.
PostClick(levelId) ==
    /\ CanStart
    /\ \E i \in 1..Len(window.levels) : window.levels[i].id = levelId
    /\ tasks' = Append(tasks, Task("postButton", "aps", levelId, Undefined, NoDevice))
    /\ started' = started + 1
    /\ UNCHANGED <<currentLevelId, window, initAppRooms, plotted, requested,
                   deviceVisibility>>
    /\ UNCHANGED <<deviceReadings, last, inflight, handled, catalog, latestVars,
                   resolveVars, helperVars, refresh, plotVars>>

\* simulateDeviceReadings(apsForLevel, levelId) for the device id: signals of
\* three access points of the level.
SimulatedReading(id, levelId) ==
    LET aps == ApsOf(levelId)
    IN [id |-> id, name |-> SimName(id), hasSignals |-> TRUE,
        signals |-> [k \in 1..3 |-> Signal(aps[k].id, RSSI_TX_POWER)],
        date |-> "2024-01-01T00:00:00.000Z", levelId |-> levelId]

\* The post button with the access points: it simulates a reading and puts
\* it.
PostPut(i, id) ==
    /\ tasks[i].pc = "aps"
    /\ Put(SimulatedReading(id, tasks[i].levelId))
    /\ tasks' = [tasks EXCEPT ![i].pc = "put"]
    /\ UNCHANGED <<currentLevelId, window, initAppRooms, plotted, requested, started,
                   deviceVisibility>>
    /\ UNCHANGED <<inflight, handled, catalog, latestVars, resolveVars, helperVars,
                   refresh, plotVars>>

\* The post button after the PUT: it asks for the readings of currentLevelId.
PostFetch(i) ==
    /\ tasks[i].pc = "put"
    /\ tasks' = [tasks EXCEPT ![i].pc = "reads", ![i].fetched = currentLevelId]
    /\ UNCHANGED <<currentLevelId, window, initAppRooms, plotted, requested, started,
                   deviceVisibility>>
    /\ UNCHANGED <<deviceReadings, last, inflight, handled, catalog, latestVars,
                   resolveVars, helperVars, refresh, plotVars>>

\* The post button with the readings: it plots them with window.accessPoints
\* and the rooms of initApp.
PostPlot(i) ==
    /\ tasks[i].pc = "reads"
    /\ plotted' = Plot("postButton", ReadsOf(tasks[i].fetched, currentLevelId),
                       window.accessPoints, initAppRooms, window.currentLevelId,
                       NoDevice)
    /\ deviceVisibility' = Listed(deviceVisibility)
    /\ tasks' = RemoveAt(tasks, i)
    /\ UNCHANGED <<currentLevelId, window, initAppRooms, requested, started>>
    /\ UNCHANGED <<deviceReadings, last, inflight, handled, catalog, latestVars,
                   resolveVars, helperVars, refresh, plotVars>>

InitClient == Init

NextClient ==
    \/ InitApp
    \/ \E levelId \in ClientLevelIds : ClickLevel(levelId)
    \/ \E i \in 1..Len(tasks) : FinishSwitch(i)
    \/ \E id \in SimDevices : ToggleDevice(id)
    \/ \E empty \in BOOLEAN : SearchInput(empty)
    \/ \E i \in 1..Len(tasks), k \in 1..Cardinality(SimDevices) : SearchMatch(i, k)
    \/ \E i \in 1..Len(tasks) : SearchNoMatch(i)
    \/ \E i \in 1..Len(tasks) : SearchHighlight(i)
    \/ \E i \in 1..Len(tasks) : FinishRefresh(i)
    \/ \E levelId \in ClientLevelIds : PostClick(levelId)
    \/ \E i \in 1..Len(tasks), id \in SimDevices : PostPut(i, id)
    \/ \E i \in 1..Len(tasks) : PostFetch(i)
    \/ \E i \in 1..Len(tasks) : PostPlot(i)

SpecClient == InitClient /\ [][NextClient]_vars

----------------------------------------------------------------------------
(* rssiToDistance on its own: two whole rssi samples between -MaxLoss and 0 *)

MaxLoss == 100

RssiSamples == {-k : k \in 0..MaxLoss}

InitDistance ==
    /\ InitServer
    /\ LatestIdle /\ ResolveIdle /\ SolveIdle /\ LocateIdle /\ FilterIdle
    /\ refresh = NoRefresh
    /\ UiIdle
    /\ \E r1, r2 \in RssiSamples : rssiArgs = [r1 |-> r1, r2 |-> r2]
    /\ distances = NotCalled

CallRssiToDistance ==
    /\ ~distances.done
    /\ distances' = Returned([d1 |-> rssiToDistance(rssiArgs.r1),
                              d2 |-> rssiToDistance(rssiArgs.r2)])
    /\ UNCHANGED <<deviceReadings, last, inflight, handled, catalog, latestVars,
                   resolveVars, solveVars, locateVars, filterVars, rssiArgs,
                   refresh, uiVars>>

NextDistance == CallRssiToDistance

SpecDistance == InitDistance /\ [][NextDistance]_vars

----------------------------------------------------------------------------
(* trilaterate on its own: three anchors of a square lattice, each with its *)
(* exact distance to a point of the lattice.                                *)

\* The lattice has MaxCoord + 1 coordinates, 10 grid units (50 source units)
\* apart.
MaxCoord == 2

SolveCoords == {10 * k : k \in 0..MaxCoord}

SolvePoints == [x : SolveCoords, y : SolveCoords]

\* The anchor a with its distance to the point from, as trilaterate takes it.
AnchorSeenFrom(a, from) ==
    [x |-> a.x, y |-> a.y,
     d |-> Root((a.x - from.x) * (a.x - from.x) + (a.y - from.y) * (a.y - from.y))]

InitSolve ==
    /\ InitServer
    /\ LatestIdle /\ ResolveIdle /\ LocateIdle /\ FilterIdle /\ DistanceIdle
    /\ refresh = NoRefresh
    /\ UiIdle
    /\ \E a, b, c, from \in SolvePoints :
          solveArgs = [p1 |-> AnchorSeenFrom(a, from), p2 |-> AnchorSeenFrom(b, from),
                       p3 |-> AnchorSeenFrom(c, from), from |-> from]
    /\ solved = NotCalled

CallTrilaterate ==
    /\ ~solved.done
    /\ solved' = Returned(trilaterate(solveArgs.p1, solveArgs.p2, solveArgs.p3))
    /\ UNCHANGED <<deviceReadings, last, inflight, handled, catalog, latestVars,
                   resolveVars, solveArgs, locateVars, filterVars, distanceVars,
                   refresh, uiVars>>

NextSolve == CallTrilaterate

SpecSolve == InitSolve /\ [][NextSolve]_vars

----------------------------------------------------------------------------
(* getRoomForPosition on its own: points a half-step of 5 grid units (25    *)
(* source units) apart, which fall inside, outside and on the edges of the  *)
(* rooms of db.js.                                                          *)

MaxLocateX == 68
MaxLocateY == 24

LocateXs == {Frac(10 * k, 2) : k \in 0..MaxLocateX}

LocateYs == {Frac(10 * k, 2) : k \in 0..MaxLocateY}

Reversed(seq) == [i \in 1..Len(seq) |-> seq[Len(seq) + 1 - i]]

\* Two rooms that overlap: the second lies within the first.
NestedRooms == <<
    Room("R101", "Hall", 100, 100, 600, 400, "L001"),
    Room("R102", "Booth", 300, 200, 100, 100, "L001") >>

\* The room lists passed: the rooms of a level as GET /rooms sends them, in
\* that order and in the opposite one, and the overlapping rooms.
LocateRoomLists ==
    {FilterLevel(rooms, l) : l \in {"L001", "L002", "L999"}}
        \cup {Reversed(FilterLevel(rooms, "L001")), NestedRooms, Reversed(NestedRooms)}

InitLocate ==
    /\ InitServer
    /\ LatestIdle /\ ResolveIdle /\ SolveIdle /\ FilterIdle /\ DistanceIdle
    /\ refresh = NoRefresh
    /\ UiIdle
    /\ \E x \in LocateXs, y \in LocateYs, rms \in LocateRoomLists :
          locateArgs = [x |-> x, y |-> y, rooms |-> rms]
    /\ roomName = NotCalled

CallGetRoomForPosition ==
    /\ ~roomName.done
    /\ roomName' =
          Returned(getRoomForPosition(locateArgs.x, locateArgs.y, locateArgs.rooms))
    /\ UNCHANGED <<deviceReadings, last, inflight, handled, catalog, latestVars,
                   resolveVars, solveVars, locateArgs, filterVars, distanceVars,
                   refresh, uiVars>>

NextLocate == CallGetRoomForPosition

SpecLocate == InitLocate /\ [][NextLocate]_vars

----------------------------------------------------------------------------
(* The three level filters on the same readings and level id.  A levelId is *)
(* whatever JSON holds: the write handlers accept every truthy value.       *)

\* JavaScript values: strings, the number 1 and one-element arrays of a
\* string (text is what String(value) gives).
JsString(text) == [type |-> "string", text |-> text]

JsNumberOne == [type |-> "number", text |-> "1"]

JsArrayOf(text) == [type |-> "array", text |-> text]

\* Number(text) is 1 for these strings of the model and NaN for the others.
NumericOne == {"1", "01"}

\* a === b; two arrays are two objects, never the same one here
StrictEq(a, b) == a.type = b.type /\ a.type # "array" /\ a.text = b.text

\* a == b: operands of different types are converted, an array to its
\* string, and a string that meets a number to a number
LooseEq(a, b) ==
    IF a.type = b.type THEN StrictEq(a, b)
    ELSE IF a.type = "number" THEN b.text \in NumericOne
    ELSE IF b.type = "number" THEN a.text \in NumericOne
    ELSE a.text = b.text

\* !levelId
JsFalsy(v) == v.type = "string" /\ v.text = ""

\* server.js, first variant: readings.filter(r => r.levelId == levelId)
filterReadingsByLevelLoose(rs, levelId) ==
    SelectSeq(rs, LAMBDA r : LooseEq(r.levelId, levelId))

\* server.js, second variant: readings.filter(r => r.levelId === levelId)
filterReadingsByLevel(rs, levelId) ==
    SelectSeq(rs, LAMBDA r : StrictEq(r.levelId, levelId))

\* routes.js, GET /device-readings: the list sent for ?levelId=...
GetDeviceReadingsList(store, levelId) ==
    IF ~JsFalsy(levelId)
    THEN SelectSeq(store, LAMBDA reading : StrictEq(reading.levelId, levelId))
    ELSE store

MaxFilterLen == 2

\* The level ids that readings carry: every one is truthy.
StoredLevelIds ==
    {JsString("L001"), JsString("L002"), JsString("1"), JsNumberOne,
     JsArrayOf("L001")}

FilterReadings == [id : {"DEV001"}, levelId : StoredLevelIds]

\* The level ids asked for: a query parameter and the value of the level
\* selector are strings.
AskedLevelIds ==
    {JsString(""), JsString("L001"), JsString("L002"), JsString("1"), JsString("01")}

InitFilter ==
    /\ InitServer
    /\ LatestIdle /\ ResolveIdle /\ SolveIdle /\ LocateIdle /\ DistanceIdle
    /\ refresh = NoRefresh
    /\ UiIdle
    /\ \E rs \in SeqsUpTo(FilterReadings, MaxFilterLen), l \in AskedLevelIds :
          filterArgs = [readings |-> rs, levelId |-> l]
    /\ filtered = NotCalled

\* The same readings and level id go through the three filters.
CallFilters ==
    /\ ~filtered.done
    /\ filtered' = Returned(
          [server |-> GetDeviceReadingsList(filterArgs.readings, filterArgs.levelId),
           first |-> filterReadingsByLevelLoose(filterArgs.readings, filterArgs.levelId),
           second |-> filterReadingsByLevel(filterArgs.readings, filterArgs.levelId)])
    /\ UNCHANGED <<deviceReadings, last, inflight, handled, catalog, latestVars,
                   resolveVars, solveVars, locateVars, filterArgs, distanceVars,
                   refresh, uiVars>>

NextFilter == CallFilters

SpecFilter == InitFilter /\ [][NextFilter]_vars

----------------------------------------------------------------------------
(* Claims about the write handlers, stated on the request handled last *)

\* Some field among id, signals, date, levelId is missing from the body.
Missing(body) ==
    \/ body.id = Undefined
    \/ ~body.hasSignals
    \/ body.date = Undefined
    \/ body.levelId = Undefined

\* Some field among id, signals, date, levelId is missing or falsy.
MissingOrFalsy(body) ==
    \/ body.id \in {Undefined, ""}
    \/ ~body.hasSignals
    \/ body.date \in {Undefined, ""}
    \/ body.levelId \in {Undefined, ""}

HasId(store, id) == \E i \in 1..Len(store) : store[i].id = id

LastValid(method) == last.method = method /\ ~MissingOrFalsy(last.body)

\* C1: a PUT of a valid reading whose id is stored overwrites only the first
\* record with that id (levelId plays no part): same length, same index, every
\* other record, a later duplicate included, is as it was.
C1_UpsertOverwritesFirstOnly ==
    (LastValid("PUT") /\ HasId(last.before, last.body.id)) =>
        /\ Len(deviceReadings) = Len(last.before)
        /\ \E k \in 1..Len(last.before) :
              /\ last.before[k].id = last.body.id
              /\ \A j \in 1..(k - 1) : last.before[j].id # last.body.id
              /\ deviceReadings[k] = NewReading(last.body)
              /\ \A j \in 1..Len(last.before) :
                    j # k => deviceReadings[j] = last.before[j]

\* C1 witness: the store held two records of the id, the first on another
\* level than the body; the first was overwritten and the second kept.
C1_Witness ==
    /\ LastValid("PUT")
    /\ Len(last.before) = 2
    /\ last.before[1].id = last.body.id
    /\ last.before[2].id = last.body.id
    /\ last.before[1].levelId # last.body.levelId
    /\ last.before[1] # NewReading(last.body)
    /\ last.before[2] # NewReading(last.body)
    /\ deviceReadings = <<NewReading(last.body), last.before[2]>>

\* C2: a PUT of a valid reading whose id is not stored acts as Append, and the
\* status is 201 exactly when no record had the id before, otherwise 200.
C2_UpsertNewIdAppends ==
    LastValid("PUT") =>
        /\ (~HasId(last.before, last.body.id)) =>
              deviceReadings = last.before \o <<NewReading(last.body)>>
        /\ last.status = 201 <=> ~HasId(last.before, last.body.id)
        /\ last.status = 200 <=> HasId(last.before, last.body.id)

\* C2 witness: a PUT with a new id on a non-empty store answered 201 and
\* added the record at the end.
C2_Witness ==
    /\ LastValid("PUT")
    /\ Len(last.before) = 1
    /\ ~HasId(last.before, last.body.id)
    /\ last.status = 201
    /\ Len(deviceReadings) = 2
    /\ deviceReadings[2] = NewReading(last.body)

\* C3: a POST or PUT whose body misses id, signals, date or levelId answers
\* 400 and leaves the store as it was.
C3_MissingFieldRejected ==
    (last.method \in {"POST", "PUT"} /\ Missing(last.body)) =>
        /\ last.status = 400
        /\ deviceReadings = last.before

\* C3 witness: a PUT missing only levelId was rejected on a non-empty store.
C3_Witness ==
    /\ last.method = "PUT"
    /\ last.body.levelId = Undefined
    /\ Truthy(last.body.id) /\ last.body.hasSignals /\ Truthy(last.body.date)
    /\ last.status = 400
    /\ Len(deviceReadings) > 0
    /\ deviceReadings = last.before

\* C4: a POST of a valid reading adds exactly one record at the end, also when
\* the id is already stored; every earlier record keeps index and content.
C4_AppendAlwaysAdds ==
    LastValid("POST") =>
        /\ Len(deviceReadings) = Len(last.before) + 1
        /\ deviceReadings[Len(deviceReadings)] = NewReading(last.body)
        /\ \A j \in 1..Len(last.before) : deviceReadings[j] = last.before[j]
        /\ last.status = 201

\* C4 witness: a POST of an id that was already stored.
C4_Witness ==
    /\ LastValid("POST")
    /\ HasId(last.before, last.body.id)
    /\ Len(deviceReadings) = Len(last.before) + 1

\* C5 as claimed: the validation rejects exactly the bodies in which one of
\* the four fields is absent.
C5_RejectsIffAbsent ==
    last.method \in {"POST", "PUT"} =>
        (last.status = 400 <=> Missing(last.body))

\* C5 amended: the validation rejects exactly the bodies in which one of the
\* four fields is absent or falsy (the empty string); every other body is
\* accepted with 201 or 200, an empty signals array included.
C5_RejectsIffFalsy ==
    last.method \in {"POST", "PUT"} =>
        /\ last.status = 400 <=> MissingOrFalsy(last.body)
        /\ (~MissingOrFalsy(last.body)) => last.status \in {200, 201}

\* C5 witness: a PUT whose four fields are all present, the id being the
\* empty string, was rejected and changed nothing.
C5_Witness ==
    /\ last.method = "PUT"
    /\ ~Missing(last.body)
    /\ last.body.id = ""
    /\ Truthy(last.body.date) /\ Truthy(last.body.levelId)
    /\ last.status = 400
    /\ Len(deviceReadings) > 0
    /\ deviceReadings = last.before

\* A body with all four fields truthy and an empty signals array was accepted.
EmptySignalsAccepted ==
    /\ last.method = "POST"
    /\ ~MissingOrFalsy(last.body)
    /\ last.body.signals = <<>>
    /\ last.status = 201
    /\ deviceReadings = last.before \o <<NewReading(last.body)>>

----------------------------------------------------------------------------
(* Claims about concurrent writes *)

\* The store after running the requests of order one at a time, in that order.
RECURSIVE SerialRun(_)
SerialRun(order) ==
    IF Len(order) = 0 THEN <<>>
    ELSE LET before == SerialRun(SubSeq(order, 1, Len(order) - 1))
             req == order[Len(order)]
         IN IF req.method = "POST" THEN PostStore(before, req.body)
                                   ELSE PutStore(before, req.body)

\* The orders in which the requests of a set can run one at a time.
Orders(reqs) ==
    {f \in [1..Cardinality(reqs) -> reqs] :
        \A i, j \in 1..Cardinality(reqs) : f[i] = f[j] => i = j}

\* C6: whatever the interleaving of concurrent POST and PUT requests, the store
\* is the store of some one-at-a-time run of the handled requests, and every
\* record is the reading of one accepted request.
C6_Serializable ==
    /\ \E order \in Orders(handled) : SerialRun(order) = deviceReadings
    /\ \A i \in 1..Len(deviceReadings) :
          \E req \in handled :
             /\ ~MissingOrFalsy(req.body)
             /\ deviceReadings[i] = NewReading(req.body)

\* C6 witness: three requests were served, and the PUT that was sent first
\* ran after a POST of the same id that was sent later: the record of the POST
\* is overwritten, at its index, by the reading of the PUT.
C6_Witness ==
    /\ Cardinality(handled) = 3
    /\ Len(deviceReadings) = 2
    /\ \E a, b \in handled :
          /\ a.n = 1 /\ a.method = "PUT" /\ ~MissingOrFalsy(a.body)
          /\ b.n > 1 /\ b.method = "POST" /\ b.body.id = a.body.id
          /\ b.body.levelId # a.body.levelId
          /\ deviceReadings[1] = NewReading(a.body)
          /\ \A i \in 1..Len(deviceReadings) :
                deviceReadings[i] # NewReading(b.body)

----------------------------------------------------------------------------
(* Claims about getLatestReadings *)

ResultOf(id) ==
    {k \in 1..Len(latestResult.value) : latestResult.value[k].id = id}

\* The indices of the readings of an id whose date parses.
DatedOf(id) ==
    {i \in 1..Len(readings) : readings[i].id = id /\ ValidDate(readings[i].date)}

\* C7: for every device id of the input, the record kept for it is dated no
\* earlier than any input record of that id, whatever the input order.
C7_KeepsLatestDate ==
    latestResult.done =>
        \A i \in 1..Len(readings) :
            ValidDate(readings[i].date) =>
                \E k \in ResultOf(readings[i].id) :
                    /\ ValidDate(latestResult.value[k].date)
                    /\ DateTable[latestResult.value[k].date]
                          >= DateTable[readings[i].date]

\* C8: when several records of an id share its latest date, the one kept is
\* the first of them in the input.
C8_TieKeepsFirst ==
    latestResult.done =>
        \A i \in 1..Len(readings) :
            LET id == readings[i].id
                isMax == /\ i \in DatedOf(id)
                         /\ \A j \in DatedOf(id) :
                               DateTable[readings[j].date]
                                  <= DateTable[readings[i].date]
                isFirst == \A j \in DatedOf(id) :
                               DateTable[readings[j].date]
                                  = DateTable[readings[i].date] => i <= j
            IN (isMax /\ isFirst) =>
                  /\ ResultOf(id) # {}
                  /\ \A k \in ResultOf(id) : latestResult.value[k] = readings[i]

\* C9: the result holds exactly one record for each id of the input, none for
\* any other id, and every record of the result is a record of the input.
C9_OnePerDevice ==
    latestResult.done =>
        /\ \A i \in 1..Len(readings) :
              Cardinality(ResultOf(readings[i].id)) = 1
        /\ \A k \in 1..Len(latestResult.value) :
              \E i \in 1..Len(readings) : readings[i] = latestResult.value[k]

\* The input of getLatestReadings is free of ids inherited from
\* Object.prototype and of dates that do not parse.
PlainInput ==
    \A i \in 1..Len(readings) :
        /\ readings[i].id \notin ObjectPrototypeKeys
        /\ ValidDate(readings[i].date)

\* On plain input the three statements above hold of the code.
LatestOnPlainInput ==
    (latestResult.done /\ PlainInput) =>
        /\ C7_KeepsLatestDate
        /\ C8_TieKeepsFirst
        /\ C9_OnePerDevice

----------------------------------------------------------------------------
(* Claims about computeDevicePosition *)

\* The signals of the argument whose apId names an access point of the
\* access points passed.
KnownSignals ==
    {i \in 1..Len(argSignals) :
        \E j \in 1..Len(argAccessPoints) :
            argAccessPoints[j].id = argSignals[i].apId}

\* C10: with fewer than three signals of known access points the result is
\* null, however many signals the reading holds.
C10_FewerThanThreeKnownIsNull ==
    (position.done /\ Cardinality(KnownSignals) < 3) => position.value.null

\* C10 witness: four signals, of which two are known and which name three
\* access points of the catalog, gave null.
C10_Witness ==
    /\ position.done
    /\ Len(argSignals) = 4
    /\ Cardinality(KnownSignals) = 2
    /\ Cardinality({argSignals[i].apId : i \in 1..Len(argSignals)}
                      \ {"AP999999"}) = 3
    /\ position.value.null

\* Some call of computeDevicePosition returns a position.
SomePositionReturned == position.done /\ ~position.value.null

\* The index in argSignals of the third signal of a known access point.
ThirdKnown ==
    CHOOSE i \in KnownSignals :
        Cardinality({j \in KnownSignals : j <= i}) = 3

\* argSignals with signal s put in after its first p signals.
InsertedAt(p, s) ==
    SubSeq(argSignals, 1, p) \o <<s>> \o SubSeq(argSignals, p + 1, Len(argSignals))

\* The signals of the model that name no access point of any catalog.
UnknownSignals == {s \in Signals : s.apId = "AP999999"}

\* C11: the result is that of the signals up to the third known one followed
\* by nothing or by any other signal, and a signal of an unknown access
\* point put in anywhere leaves it as it is.
C11_FirstThreeKnownDecide ==
    position.done =>
        /\ Cardinality(KnownSignals) >= 3 =>
              \A rest \in SeqsUpTo(Signals, 1) :
                  computeDevicePosition(argAccessPoints,
                      SubSeq(argSignals, 1, ThirdKnown) \o rest, argRooms)
                  = position.value
        /\ \A p \in 0..Len(argSignals) : \A s \in UnknownSignals :
              computeDevicePosition(argAccessPoints, InsertedAt(p, s), argRooms)
              = position.value

\* C11 witness: four known signals gave a position, and the last three of
\* them alone give another result.
C11_Witness ==
    /\ position.done
    /\ Cardinality(KnownSignals) = 4
    /\ ~position.value.null
    /\ computeDevicePosition(argAccessPoints, SubSeq(argSignals, 2, 4), argRooms)
          # position.value

\* The anchor of the k-th known signal of argSignals, with its distance.
KnownPoint(k) ==
    LET i == CHOOSE i \in KnownSignals :
                 Cardinality({j \in KnownSignals : j <= i}) = k
        ap == FindAccessPoint(argAccessPoints, argSignals[i].apId).ap
    IN [x |-> ap.x, y |-> ap.y, d |-> Measured(rssiToDistance(argSignals[i].rssi))]

\* The candidate that trilaterate solves from the first three known signals.
Candidate == trilaterate(KnownPoint(1), KnownPoint(2), KnownPoint(3))

\* The point pos lies in the rectangle of room, its edges included.
InRoom(pos, room) ==
    /\ room.x * pos.x.den <= pos.x.num
    /\ pos.x.num <= (room.x + room.width) * pos.x.den
    /\ room.y * pos.y.den <= pos.y.num
    /\ pos.y.num <= (room.y + room.height) * pos.y.den

InSomeRoom(pos) == \E k \in 1..Len(argRooms) : InRoom(pos, argRooms[k])

\* C12: a returned position lies in a room of the rooms passed; a candidate
\* in no room gives null and a candidate in a room is returned as it is.
C12_ReturnedPositionInRoom ==
    position.done =>
        /\ ~position.value.null => InSomeRoom(position.value)
        /\ (Cardinality(KnownSignals) >= 3 /\ ~Candidate.null) =>
              IF InSomeRoom(Candidate)
              THEN position.value = Candidate
              ELSE position.value.null

\* C12 witness: a candidate was solved, lies in no room, and null came back.
C12_Witness ==
    /\ position.done
    /\ Cardinality(KnownSignals) >= 3
    /\ ~Candidate.null
    /\ ~InSomeRoom(Candidate)
    /\ position.value.null

\* denom as the claim writes it, from the anchors passed to trilaterate
ClaimDenom ==
    LET A == 2 * (solveArgs.p1.x - solveArgs.p2.x)
        B == 2 * (solveArgs.p1.y - solveArgs.p2.y)
        D == 2 * (solveArgs.p1.x - solveArgs.p3.x)
        E == 2 * (solveArgs.p1.y - solveArgs.p3.y)
    IN A * E - B * D

\* The room lists that the three points are resolved in.
SolveRoomLists ==
    {FilterLevel(rooms, "L001"), <<Room("R", "R", 0, 0, 100, 100, "L1")>>, <<>>}

\* C13: trilaterate returns null exactly when denom is 0 (on whole
\* coordinates, |denom| < 1e-6); the resolver then gives null in every room
\* list; a position that is returned has been divided by a non-zero denom.
C13_NullIffDenomZero ==
    solved.done =>
        /\ solved.value.null <=> ClaimDenom = 0
        /\ ClaimDenom = 0 =>
              \A rms \in SolveRoomLists :
                  SolveInRooms(solveArgs.p1, solveArgs.p2, solveArgs.p3, rms).null
        /\ ~solved.value.null =>
              solved.value.x.den # 0 /\ solved.value.y.den # 0

\* C13 witness: three different anchors on one line gave null.
C13_Witness ==
    /\ solved.done
    /\ solveArgs.p1.x < solveArgs.p2.x /\ solveArgs.p2.x < solveArgs.p3.x
    /\ solveArgs.p1.y = solveArgs.p2.y /\ solveArgs.p2.y = solveArgs.p3.y
    /\ solved.value.null

\* The anchors passed to trilaterate do not lie on one line.
NonCollinear ==
    (solveArgs.p2.x - solveArgs.p1.x) * (solveArgs.p3.y - solveArgs.p1.y)
        # (solveArgs.p2.y - solveArgs.p1.y) * (solveArgs.p3.x - solveArgs.p1.x)

\* The position pos is the lattice point pt.
IsPoint(pos, pt) ==
    /\ ~pos.null
    /\ pos.x.num = pt.x * pos.x.den
    /\ pos.y.num = pt.y * pos.y.den

\* The example: anchors (0,0), (100,0), (0,100) seen from (50,50).
IsExample ==
    /\ solveArgs.p1.x = ToGrid(0) /\ solveArgs.p1.y = ToGrid(0)
    /\ solveArgs.p2.x = ToGrid(100) /\ solveArgs.p2.y = ToGrid(0)
    /\ solveArgs.p3.x = ToGrid(0) /\ solveArgs.p3.y = ToGrid(100)
    /\ solveArgs.from.x = ToGrid(50) /\ solveArgs.from.y = ToGrid(50)

\* C14: from anchors not on one line and their exact distances to a point,
\* trilaterate returns that point; resolved in the room of the example the
\* point comes back when the room holds it, and the room is then named.
C14_ExactDistancesRecoverPoint ==
    (solved.done /\ NonCollinear) =>
        /\ IsPoint(solved.value, solveArgs.from)
        /\ LET pos == SolveInRooms(solveArgs.p1, solveArgs.p2, solveArgs.p3,
                                   ExampleRooms)
           IN IF InRoom(solved.value, ExampleRooms[1])
              THEN /\ IsPoint(pos, solveArgs.from)
                   /\ getRoomForPosition(pos.x, pos.y, ExampleRooms) = "R"
              ELSE pos.null
        /\ IsExample =>
              /\ IsPoint(solved.value, [x |-> ToGrid(50), y |-> ToGrid(50)])
              /\ InRoom(solved.value, ExampleRooms[1])

\* C14 witness: the example was solved.
C14_Witness ==
    /\ solved.done
    /\ IsExample
    /\ IsPoint(solved.value, [x |-> ToGrid(50), y |-> ToGrid(50)])

\* The rooms of locateArgs.rooms, by index, whose rectangle holds the point.
RoomsHolding ==
    {k \in 1..Len(locateArgs.rooms) :
        InRoom([x |-> locateArgs.x, y |-> locateArgs.y], locateArgs.rooms[k])}

\* C15: the name returned is that of the first room of the list that holds
\* the point, edges included, and "Outside" when no room holds it.
C15_FirstRoomHoldingPoint ==
    roomName.done =>
        /\ RoomsHolding = {} => roomName.value = "Outside"
        /\ RoomsHolding # {} =>
              /\ roomName.value # "Outside"
              /\ \E k \in RoomsHolding :
                    /\ \A j \in RoomsHolding : k <= j
                    /\ roomName.value = locateArgs.rooms[k].name

\* C15 witness: a point on the far edge of the first room of the list, which
\* is the near edge of the second, got the name of the first.
C15_Witness ==
    /\ roomName.done
    /\ {1, 2} \subseteq RoomsHolding
    /\ locateArgs.x.num
          = (locateArgs.rooms[1].x + locateArgs.rooms[1].width) * locateArgs.x.den
    /\ locateArgs.x.num = locateArgs.rooms[2].x * locateArgs.x.den
    /\ roomName.value = locateArgs.rooms[1].name

\* The readings of filterArgs whose levelId is the level id asked for, of the
\* same type and value, in their order.
ExactlyOfLevel ==
    SelectSeq(filterArgs.readings,
              LAMBDA r : /\ r.levelId.type = filterArgs.levelId.type
                         /\ r.levelId.type # "array"
                         /\ r.levelId.text = filterArgs.levelId.text)

\* C16: the server's filter and both client filters return exactly the
\* readings whose levelId equals the level id without conversion, and so
\* agree.
C16_FiltersExactAndAgree ==
    filtered.done =>
        /\ filtered.value.server = ExactlyOfLevel
        /\ filtered.value.first = ExactlyOfLevel
        /\ filtered.value.second = ExactlyOfLevel

\* The second client variant is exact, and the server's filter is exact
\* whenever the level id asked for is truthy.
StrictFiltersExact ==
    filtered.done =>
        /\ filtered.value.second = ExactlyOfLevel
        /\ ~JsFalsy(filterArgs.levelId) => filtered.value.server = ExactlyOfLevel

\* The first client variant returned a reading that the second did not.
LooseFilterDiffers ==
    filtered.done /\ filtered.value.first # filtered.value.second

\* The number of records of the store that carry the id.
CountId(store, id) == Cardinality({i \in 1..Len(store) : store[i].id = id})

\* C17: no step shortens the store or lowers the number of records of a
\* device id.
C17_NothingRemoved ==
    [][/\ Len(deviceReadings') >= Len(deviceReadings)
       /\ \A id \in BodyIds :
             CountId(deviceReadings', id) >= CountId(deviceReadings, id)]_vars

\* C17 witness: a PUT changed a store that held two records of its id, and
\* the store still holds two records of that id.
C17_Witness ==
    /\ last.method = "PUT" /\ last.status = 200
    /\ CountId(last.before, last.body.id) = 2
    /\ deviceReadings # last.before
    /\ CountId(deviceReadings, last.body.id) = 2

\* C18: the catalogs are those of db.js, and a GET leaves the store as the
\* handler found it.
C18_CatalogsAndStoreUntouched ==
    /\ catalog = [levels |-> levels, accessPoints |-> accessPoints, rooms |-> rooms]
    /\ last.method = "GET" => deviceReadings = last.before

\* C18 witness: after two writes a GET /access-points?levelId=L001 sent a
\* part of the catalog.
C18_Witness ==
    /\ last.method = "GET" /\ last.path = "/access-points" /\ last.query = "L001"
    /\ Len(last.payload) > 0
    /\ Len(last.payload) < Len(catalog.accessPoints)
    /\ Len(deviceReadings) = 2

\* C19: what one refresh renders comes from one state of the store, so every
\* reading plotted for the level is also in the sidebar's list.
C19_RefreshIsOneSnapshot ==
    refresh.pc = "rendered" =>
        \A i \in 1..Len(refresh.plot) :
            \E j \in 1..Len(refresh.sidebar) : refresh.sidebar[j] = refresh.plot[i]

\* Each answer on its own is one state of the store: the list of the GET
\* handled last is the store, or its part of the level asked for.
EachAnswerIsOneSnapshot ==
    (last.method = "GET" /\ last.path = "/device-readings") =>
        last.payload = IF Truthy(last.query)
                       THEN FilterLevel(deviceReadings, last.query)
                       ELSE deviceReadings

\* C20: of two samples the weaker one (the lower rssi) gets the strictly
\* greater distance.
C20_StrictlyDecreasing ==
    (distances.done /\ rssiArgs.r1 < rssiArgs.r2) =>
        distances.value.d1 > distances.value.d2

\* C20 witness: two samples one apart, and the weaker got the greater
\* distance.
C20_Witness ==
    /\ distances.done
    /\ rssiArgs.r2 = rssiArgs.r1 + 1
    /\ distances.value.d1 > distances.value.d2

\* The cross product (p2 - p1) x (p3 - p1) of the anchors passed to
\* trilaterate: 0 exactly when they lie on one line.
ClaimCross ==
    (solveArgs.p2.x - solveArgs.p1.x) * (solveArgs.p3.y - solveArgs.p1.y)
        - (solveArgs.p2.y - solveArgs.p1.y) * (solveArgs.p3.x - solveArgs.p1.x)

\* The three anchors as the access points P1, P2, P3 of one level.
AnchorAccessPoints ==
    <<[id |-> "P1", x |-> solveArgs.p1.x, y |-> solveArgs.p1.y, levelId |-> "L1"],
      [id |-> "P2", x |-> solveArgs.p2.x, y |-> solveArgs.p2.y, levelId |-> "L1"],
      [id |-> "P3", x |-> solveArgs.p3.x, y |-> solveArgs.p3.y, levelId |-> "L1"]>>

\* Four signals of rssi -45 (a distance of 50) for the access points named.
AnchorSignals(ids) == [i \in 1..4 |-> Signal(ids[i], -45)]

\* The lists of four apIds that name all of P1, P2, P3, one of them twice
\* among the first three.
RepeatedFirst ==
    {ids \in [1..4 -> {"P1", "P2", "P3"}] :
        /\ {ids[i] : i \in 1..4} = {"P1", "P2", "P3"}
        /\ Cardinality({ids[i] : i \in 1..3}) = 2}

\* C27: on whole coordinates trilaterate returns null exactly when the three
\* anchors lie on one line: denom is four times their cross product, hence 0
\* or at least 4 in absolute value.  So computeDevicePosition returns null
\* when an apId occurs twice among the first three valid signals, also when
\* a valid signal of a third access point follows.
C27_NullIffCollinear ==
    solved.done =>
        /\ ClaimDenom = 4 * ClaimCross
        /\ ClaimDenom = 0 \/ ClaimDenom >= 4 \/ ClaimDenom <= -4
        /\ solved.value.null <=> ClaimCross = 0
        /\ \A ids \in RepeatedFirst, rms \in SolveRoomLists :
              computeDevicePosition(AnchorAccessPoints, AnchorSignals(ids), rms).null

\* C27 witness: the anchors (0,50), (50,0), (100,50) are not on one line, were
\* solved, and their three signals resolve to (50,50) in the room of the
\* example; with P1 heard twice before P2 and P3 the resolver gave null.
C27_Witness ==
    /\ solved.done
    /\ ~solved.value.null
    /\ ClaimCross # 0
    /\ solveArgs.p1.x = ToGrid(0) /\ solveArgs.p1.y = ToGrid(50)
    /\ solveArgs.p2.x = ToGrid(50) /\ solveArgs.p2.y = ToGrid(0)
    /\ solveArgs.p3.x = ToGrid(100) /\ solveArgs.p3.y = ToGrid(50)
    /\ IsPoint(computeDevicePosition(AnchorAccessPoints,
                   <<Signal("P1", -45), Signal("P2", -45), Signal("P3", -45)>>,
                   ExampleRooms),
               [x |-> ToGrid(50), y |-> ToGrid(50)])
    /\ computeDevicePosition(AnchorAccessPoints,
           AnchorSignals(<<"P1", "P1", "P2", "P3">>), ExampleRooms).null

\* The store holds at most one record of each id.
UpsertOnePerId ==
    \A i, j \in 1..Len(deviceReadings) :
        deviceReadings[i].id = deviceReadings[j].id => i = j

\* Each id of the store is in the level-filtered readings of one level only.
UpsertOneLevelPerId ==
    \A l1, l2 \in ReadingLevelIds :
        \A i \in 1..Len(FilterLevel(deviceReadings, l1)) :
            \A j \in 1..Len(FilterLevel(deviceReadings, l2)) :
                FilterLevel(deviceReadings, l1)[i].id
                        = FilterLevel(deviceReadings, l2)[j].id
                    => l1 = l2

\* The reading put last is the record the store holds for its id.
UpsertKeepsLastPut ==
    (last.method = "PUT" /\ last.status \in {200, 201}) =>
        \E i \in 1..Len(deviceReadings) : deviceReadings[i] = NewReading(last.body)

\* The latest readings listed from the store are the records of the store:
\* one for each id, whatever its date.
LatestIsStore ==
    (latestResult.done /\ readings = deviceReadings) =>
        /\ Len(latestResult.value) = Len(deviceReadings)
        /\ \A i \in 1..Len(deviceReadings) :
              \E j \in 1..Len(latestResult.value) :
                  latestResult.value[j] = deviceReadings[i]

\* C26: in a store written only by PUT, from empty, each id has at most one
\* record, so each device is in the readings of at most one level, and the
\* latest readings of the whole store are, for each id, the reading put last
\* for it, whatever its date.
C26_UpsertStoreIsLatest ==
    /\ UpsertOnePerId
    /\ UpsertOneLevelPerId
    /\ UpsertKeepsLastPut
    /\ LatestIsStore

\* The store is as the claim says it is: one record for each id, in one
\* level, the one put last.
UpsertStoreAsClaimed ==
    /\ UpsertOnePerId
    /\ UpsertOneLevelPerId
    /\ UpsertKeepsLastPut

\* Without ids that name a property of Object.prototype the latest readings
\* are the records of the store.
LatestIsStoreOnPlainIds ==
    (\A i \in 1..Len(deviceReadings) :
        deviceReadings[i].id \notin ObjectPrototypeKeys) => LatestIsStore

\* The position of the i-th reading given to updateDevicePlot.
PlottedPosition(i) ==
    computeDevicePosition(plotArgs.accessPoints, plotArgs.readings[i].signals,
                          plotArgs.rooms)

\* The markers drawn for the device id.
MarkersOf(id) == {k \in 1..Len(markers.value) : markers.value[k].id = id}

\* C22: a device whose position is null (outside every room, or not
\* computable) is hidden: no marker is drawn for it anywhere, and no room is
\* named for it.
C22_UnlocatedIsHidden ==
    markers.done =>
        \A i \in 1..Len(plotArgs.readings) :
            PlottedPosition(i).null => MarkersOf(plotArgs.readings[i].id) = {}

\* A device gets no marker exactly when it is switched off.
HiddenIffSwitchedOff ==
    markers.done =>
        \A i \in 1..Len(plotArgs.readings) :
            MarkersOf(plotArgs.readings[i].id) = {}
                <=> plotArgs.readings[i].id \in plotArgs.hidden

\* C23: the marker of a device that has a position is at exactly that x and
\* y, for every position in a room, also one with x = 0 or y = 0.
C23_MarkerAtPosition ==
    markers.done =>
        \A i \in 1..Len(plotArgs.readings) :
            ~PlottedPosition(i).null =>
                \A k \in MarkersOf(plotArgs.readings[i].id) :
                    /\ markers.value[k].cx = PlottedPosition(i).x
                    /\ markers.value[k].cy = PlottedPosition(i).y

\* The marker of a device that has a position with neither x = 0 nor y = 0 is
\* at that position.
MarkerAtNonZeroPosition ==
    markers.done =>
        \A i \in 1..Len(plotArgs.readings) :
            (/\ ~PlottedPosition(i).null
             /\ PlottedPosition(i).x.num # 0
             /\ PlottedPosition(i).y.num # 0) =>
                \A k \in MarkersOf(plotArgs.readings[i].id) :
                    /\ markers.value[k].cx = PlottedPosition(i).x
                    /\ markers.value[k].cy = PlottedPosition(i).y

\* Every element of the list belongs to the level.
AllOfLevel(list, levelId) == \A i \in 1..Len(list) : list[i].levelId = levelId

\* The readings, access points and rooms of the last plotting call, and the
\* reading it located, belong to the level displayed at the call.
PlottedOneLevel ==
    /\ AllOfLevel(plotted.readings, plotted.displayed)
    /\ AllOfLevel(plotted.accessPoints, plotted.displayed)
    /\ AllOfLevel(plotted.rooms, plotted.displayed)
    /\ plotted.located # NoDevice => plotted.located.levelId = plotted.displayed

\* C21: every call that plots or locates devices is given readings, access
\* points and rooms of one level, the level displayed, after any sequence of
\* level clicks, searches and post-button clicks.
C21_PlotsOneLevel == plotted.by # "none" => PlottedOneLevel

\* The calls of initApp, of switchLevel, of a checkbox and of a search without
\* a match are given the readings, access points and rooms of the level
\* displayed.
PlotsFromWindowOneLevel ==
    plotted.by \in {"initApp", "switchLevel", "checkbox", "search"} => PlottedOneLevel

\* No call of switchLevel waits for its responses.
AllSwitchesDone == \A i \in 1..Len(tasks) : tasks[i].pc # "switch"

\* C24: once every level switch that was started has completed, the window
\* shows the level requested last, with its access points and rooms, and
\* currentLevelId is window.currentLevelId, whatever the order of the
\* responses.
C24_LastRequestedWins ==
    (requested # Undefined /\ AllSwitchesDone) =>
        /\ window.currentLevelId = requested
        /\ window.accessPoints = ApsOf(requested)
        /\ window.rooms = RoomsOf(requested)
        /\ currentLevelId = window.currentLevelId

\* C25: after initApp, window.accessPoints and window.rooms are those of the
\* level window.currentLevelId names, in every state.
C25_WindowOfOneLevel ==
    Ready =>
        /\ window.accessPoints = ApsOf(window.currentLevelId)
        /\ window.rooms = RoomsOf(window.currentLevelId)
        /\ \E i \in 1..Len(window.levels) : window.levels[i].id = window.currentLevelId

\* C25 witness: a switch to the second level has completed while another
\* switch, back to the first level, waits for its responses: the window is
\* that of the second level.
C25_Witness ==
    /\ Ready
    /\ window.currentLevelId = "L002"
    /\ window.rooms = RoomsOf("L002")
    /\ window.rooms # initAppRooms
    /\ plotted.by = "switchLevel"
    /\ \E i \in 1..Len(tasks) : tasks[i].pc = "switch" /\ tasks[i].levelId = "L001"

====
